---- MODULE Spec2Model ----
(***************************************************************************)
(* The document conversion queue: the persisted document rows (DBManager), *)
(* the single-document task (PDFConversionWorker), the batch task          *)
(* (BatchConversionWorker) and the dialog's signal handlers                *)
(* (PDFManagementDialog), which run on the GUI thread and receive the      *)
(* workers' signals through the GUI thread's event queue; then the store's *)
(* operations on knowledge bases and documents (DBManager, LLMProcessor)   *)
(* called on their own, and process_page called from converter threads.    *)
(***************************************************************************)
EXTENDS Integers, Sequences, FiniteSets, TLC

\* ------------------------------------------------------------------ bounds
NumDocs == 2        \* document rows in the store
MaxPages == 2       \* pages the converter can discover in one source file
MaxQueue == 2       \* signals waiting in the GUI thread's event queue
MaxAttempts == 2    \* single-document tasks dispatched in one behaviour
MaxKbs == 2         \* knowledge-base rows in the store

DocIds == 1..NumDocs
NoPath == 0         \* converted_path IS NULL
KbIds == 1..MaxKbs
KbNames == {"a", "b"}
Threads == 1..MaxPages      \* one converter thread per page

VARIABLES
    docs,           \* documents table: id -> row
    queue,          \* queued signal deliveries to the dialog's slots (FIFO)
    bpc,            \* BatchConversionWorker.run: position
    pending_docs,   \* its local: the list get_pending_conversions returned
    idx,            \* its loop position in pending_docs (1-based)
    is_running,     \* BatchConversionWorker.is_running
    btotal,         \* batch TrackedPDFProcessor.total_pages
    bprocessed,     \* batch TrackedPDFProcessor.processed_pages
    bsig,           \* every signal emitted on the batch worker's signals object
    bnote,          \* per document: why its batch attempt raised ("none" if not)
    stopped_at,     \* when stop() was called: loop position and phase (idx 0: not called)
    spc,            \* PDFConversionWorker.run: position
    sdoc,           \* its doc_id
    sfrom,          \* the conversion_status start_conversion read for that document
    stotal,         \* single TrackedPDFProcessor.total_pages
    sprocessed,     \* single TrackedPDFProcessor.processed_pages
    ssig,           \* every signal emitted on the current single worker's signals object
    snote,          \* why the current single attempt raised ("none" if not)
    attempts,       \* single-document tasks dispatched so far
    convert_btn,    \* documents whose list widget has a Convert button
    kbs,            \* knowledge_bases table: id -> row
    kb_id,          \* documents.kb_id: document id -> knowledge base id
    dirs,           \* the directories that exist on disk
    op,             \* the store operation called last, with its arguments
    ret,            \* what that call returned
    tpc,            \* converter threads inside process_page: thread -> position
    tval            \* the value of processed_pages each thread has loaded

bvars == <<bpc, pending_docs, idx, is_running, btotal, bprocessed, bsig, bnote, stopped_at>>
svars == <<spc, sdoc, sfrom, stotal, sprocessed, ssig, snote, attempts>>
kvars == <<kbs, op, ret>>
tvars == <<tpc, tval>>
vars == <<docs, queue, bvars, svars, convert_btn, kvars, kb_id, dirs, tvars>>

\* ------------------------------------------------------- progress values
\* conversion_progress is a REAL: kept as an exact fraction in lowest terms.
RECURSIVE GCD(_, _)
GCD(a, b) == IF b = 0 THEN a ELSE GCD(b, a % b)

Frac(n, d) == LET g == GCD(n, d) IN [n |-> n \div g, d |-> d \div g]

Whole(k) == Frac(k, 1)

Leq(p, q) == p.n * q.d <= q.n * p.d

PageProgressScale100(processed, total) ==
    IF total > 0 THEN Frac(processed * 100, total) ELSE Whole(0)

PageProgressUnguarded(processed, total) == Frac(processed * 95, total)

PageProgressBeforeIncrement(processed, total) ==
    IF total > 0 THEN Frac((processed - 1) * 95, total) ELSE Whole(0)

\* progress = (processed_pages / total_pages) * 95 if total_pages > 0 else 0
PageProgress(processed, total) ==
    IF total > 0 THEN Frac(processed * 95, total) ELSE Whole(0)

\* ------------------------------------------------------------- the store
\* INSERT INTO documents (..., is_scanned, conversion_status): the other
\* columns take their defaults (converted_path NULL, progress 0, page_count 0).
NewRow(is_scanned) ==
    [is_scanned |-> is_scanned,
     status |-> IF is_scanned THEN "pending" ELSE "not_required",
     progress |-> Whole(0),
     converted_path |-> NoPath,
     page_count |-> 0]

\* an id no INSERT has used yet: the table has no row for it
NoRow ==
    [is_scanned |-> FALSE,
     status |-> "absent",
     progress |-> Whole(0),
     converted_path |-> NoPath,
     page_count |-> 0]

\* ids are AUTOINCREMENT: the rows are those of the ids 1..RowCount(tbl)
RowCount(tbl) == Cardinality({d \in DocIds : tbl[d] /= NoRow})

\* The rows document d can hold when the dialog opens on an existing
\* database: a fresh row, or a scanned document's row as an earlier session
\* left it (converted, failed, or interrupted right after being marked).
StoredRows(d) ==
    {NewRow(TRUE), NewRow(FALSE),
     [NewRow(TRUE) EXCEPT !.status = "failed"],
     [NewRow(TRUE) EXCEPT !.status = "in_progress"],
     [NewRow(TRUE) EXCEPT !.status = "completed", !.progress = Whole(100),
                          !.converted_path = d, !.page_count = 1]}

\* An optional argument: {} when the caller leaves it out (None), {v} when the
\* caller supplies v.
Omitted == {}

Supplied(v) == {v}

ValueOf(arg) == CHOOSE v \in arg : TRUE

update_document_conversionByTruthiness(tbl, doc_id, status, progress, converted_path, page_count) ==
    IF doc_id \notin DOMAIN tbl \/ tbl[doc_id] = NoRow THEN tbl
    ELSE [tbl EXCEPT
            ![doc_id].status = status,
            ![doc_id].progress =
                IF progress /= Omitted /\ ValueOf(progress).n /= 0
                THEN ValueOf(progress) ELSE @,
            ![doc_id].converted_path =
                IF converted_path /= Omitted THEN ValueOf(converted_path) ELSE @,
            ![doc_id].page_count =
                IF page_count /= Omitted /\ ValueOf(page_count) /= 0
                THEN ValueOf(page_count) ELSE @]

\* UPDATE documents SET conversion_status = ? [, conversion_progress = ?]
\* [, converted_path = ?] [, page_count = ?] WHERE id = ?
\* Each optional column is in the statement when its argument is not None; an
\* id that no row has matches nothing.
update_document_conversion(tbl, doc_id, status, progress, converted_path, page_count) ==
    IF doc_id \notin DOMAIN tbl \/ tbl[doc_id] = NoRow THEN tbl
    ELSE [tbl EXCEPT
            ![doc_id].status = status,
            ![doc_id].progress =
                IF progress /= Omitted THEN ValueOf(progress) ELSE @,
            ![doc_id].converted_path =
                IF converted_path /= Omitted THEN ValueOf(converted_path) ELSE @,
            ![doc_id].page_count =
                IF page_count /= Omitted THEN ValueOf(page_count) ELSE @]

\* update_document_conversion(doc_id, status, progress=progress)
SetProgress(tbl, d, status, progress) ==
    update_document_conversion(tbl, d, status, Supplied(progress), Omitted, Omitted)

\* update_document_conversion(doc_id, status, progress=..., converted_path=...,
\* page_count=...)
SetAll(tbl, d, status, progress, path, pages) ==
    update_document_conversion(tbl, d, status, Supplied(progress), Supplied(path),
                               Supplied(pages))

\* ------------------------------------------------- knowledge bases, paths
\* A path is the sequence of its components; "" is the empty sequence.
join(path, name) == Append(path, name)

dirname(path) == IF path = <<>> THEN <<>> ELSE SubSeq(path, 1, Len(path) - 1)

\* os.makedirs(path): the directory and every missing ancestor
makedirs(fs, path) == fs \cup {SubSeq(path, 1, n) : n \in 1..Len(path)}

\* LLMProcessor.base_dir
base_dir == <<"uploads">>

\* an id no INSERT has used yet: knowledge_bases has no row for it
NoKb == [name |-> "", directory |-> <<>>]

KbCount(tbl) == Cardinality({k \in KbIds : tbl[k] /= NoKb})

\* SELECT * FROM knowledge_bases WHERE id = ?
get_knowledge_base_by_id(tbl, k) ==
    IF k \in DOMAIN tbl THEN tbl[k] ELSE NoKb

\* SELECT id FROM knowledge_bases WHERE name = ?  (0: no such row)
get_knowledge_base_id(tbl, name) ==
    IF \E k \in KbIds : tbl[k] /= NoKb /\ tbl[k].name = name
    THEN CHOOSE k \in KbIds : tbl[k] /= NoKb /\ tbl[k].name = name
    ELSE 0

RECURSIVE PendingOrFailedFrom(_, _)
PendingOrFailedFrom(tbl, d) ==
    IF d > NumDocs THEN <<>>
    ELSE IF tbl[d].is_scanned /\ tbl[d].status \in {"pending", "failed"}
         THEN <<d>> \o PendingOrFailedFrom(tbl, d + 1)
         ELSE PendingOrFailedFrom(tbl, d + 1)

get_pending_or_failed(tbl) == PendingOrFailedFrom(tbl, 1)

\* SELECT ... WHERE d.is_scanned = TRUE AND d.conversion_status = 'pending',
\* in rowid order.
RECURSIVE PendingFrom(_, _)
PendingFrom(tbl, d) ==
    IF d > NumDocs THEN <<>>
    ELSE IF tbl[d].is_scanned /\ tbl[d].status = "pending"
         THEN <<d>> \o PendingFrom(tbl, d + 1)
         ELSE PendingFrom(tbl, d + 1)

\* (the query joins knowledge_bases on kb_id; every document the dialog holds
\* was added to a knowledge base of the store)
get_pending_conversions(tbl) == PendingFrom(tbl, 1)

\* ----------------------------------------------------------------- signals
Ev(type, d, p, cur, tot, path) ==
    [type |-> type, doc |-> d, p |-> p, cur |-> cur, tot |-> tot, path |-> path]

EvStarted(d) == Ev("started", d, Whole(0), 0, 0, NoPath)
EvProgress(d, p) == Ev("progress", d, p, 0, 0, NoPath)
EvPage(d, cur, tot) == Ev("page_processed", d, Whole(0), cur, tot, NoPath)
EvCompleted(d, path, pages) == Ev("completed", d, Whole(0), 0, pages, path)
EvError(d) == Ev("error", d, Whole(0), 0, 0, NoPath)

\* The dialog connects progress, completed and error; started and
\* page_processed have no slot.
Connected == {"progress", "completed", "error"}

\* (the queue is unbounded; MaxQueue bounds how far the GUI thread may lag)
CanEmit(e) == e.type \in Connected => Len(queue) < MaxQueue

Post(e) == IF e.type \in Connected THEN Append(queue, e) ELSE queue

\* process_pdf returns the path of the file it wrote for this document
OutPath(d) == d

\* ------------------------------------------------------- the converter
\* PDFProcessor.process_pdf drives the three overridden methods: discovery
\* once, process_page once per discovered page, then assembly once.
NextCall(processed, total) ==
    IF processed < total THEN "process_page" ELSE "create_editable_pdf"

\* DocumentListItem.__init__: a Convert button for a scanned document that is
\* pending or failed when its widget is built
HasConvertButton(tbl) ==
    {d \in DocIds : tbl[d].is_scanned /\ tbl[d].status \in {"pending", "failed"}}

\* ------------------------------------------------------------------ Init
\* no store operation has been called
NoOp == [name |-> "none", seq |-> 0]

\* what a call returns: None, an integer or a boolean
Unset == [type |-> "unset", val |-> 0]

RetNone == [type |-> "NoneType", val |-> 0]

RetInt(n) == [type |-> "int", val |-> n]

RetBool(b) == [type |-> "bool", val |-> IF b THEN 1 ELSE 0]

\* The dialog opens on a store that holds one knowledge base, made by
\* create_kb("a"), and the documents added to it.
Init ==
    /\ \E n \in 0..NumDocs :
          docs \in {tbl \in [DocIds -> UNION {StoredRows(d) : d \in DocIds} \cup {NoRow}] :
                      \A d \in DocIds : IF d <= n THEN tbl[d] \in StoredRows(d)
                                                  ELSE tbl[d] = NoRow}
    /\ queue = <<>>
    /\ bpc = "idle"
    /\ pending_docs = <<>>
    /\ idx = 1
    /\ is_running = TRUE
    /\ btotal = 0
    /\ bprocessed = 0
    /\ bsig = <<>>
    /\ bnote = [d \in DocIds |-> "none"]
    /\ stopped_at = [idx |-> 0, phase |-> "never"]
    /\ spc = "idle"
    /\ sdoc = 1
    /\ sfrom = "none"
    /\ stotal = 0
    /\ sprocessed = 0
    /\ ssig = <<>>
    /\ snote = "none"
    /\ attempts = 0
    /\ convert_btn = HasConvertButton(docs)
    /\ kbs = [k \in KbIds |-> IF k = 1 THEN [name |-> "a", directory |-> join(base_dir, "a")]
                                      ELSE NoKb]
    /\ kb_id = [d \in DocIds |-> IF docs[d] /= NoRow THEN 1 ELSE 0]
    /\ dirs = makedirs({}, join(join(base_dir, "a"), "converted"))
    /\ op = NoOp
    /\ ret = Unset
    /\ tpc = [t \in Threads |-> "none"]
    /\ tval = [t \in Threads |-> 0]

\* ---------------------------------------------------- output directories
\* start_conversion: os.path.join(kb["directory"], "converted"), with kb the
\* knowledge base of the document's kb_id
SingleOutputDir(d) ==
    join(get_knowledge_base_by_id(kbs, kb_id[d]).directory, "converted")

\* on_batch_convert_clicked: base_dir = os.path.dirname(self.llm_processor.base_dir)
output_base_dir == dirname(base_dir)

\* BatchConversionWorker.run: os.path.join(self.output_base_dir, kb_name, "converted")
\* with kb_name the name column the listing joined to the document
BatchOutputDir(d) ==
    join(join(output_base_dir, get_knowledge_base_by_id(kbs, kb_id[d]).name), "converted")

\* ------------------------------------------------- BatchConversionWorker
Cur == pending_docs[idx]

BatchLive == bpc \notin {"idle", "done", "stopped", "escaped"}

\* the worker moves to position pc and emits e on its signals object
BatchEmit(e, pc) ==
    /\ CanEmit(e)
    /\ bsig' = Append(bsig, e)
    /\ queue' = Post(e)
    /\ bpc' = pc

\* end of the loop body: the for statement takes the next document
NextDoc == idx' = idx + 1

\* the positions inside the try block at which a call can raise, with the reason
RaisesAt(pc) ==
    CASE pc = "convert" -> {"source_missing", "converter"}
      [] pc = "pages" -> IF NextCall(bprocessed, btotal) = "process_page"
                         THEN {"converter"} ELSE {}
      [] pc = "asm_call" -> {"converter"}
      [] pc = "verify" -> {"output_missing"}
      [] pc \in {"pp_write", "asm_w95", "asm_w99", "w_completed"} -> {"store"}
      [] OTHER -> {}

\* the positions outside the try block (or inside the except clause) at which
\* a call can raise
EscapesAt(pc) ==
    CASE pc = "list" -> {"store"}
      [] pc = "mark" -> {"store"}
      [] pc = "mkdir" -> {"mkdir"}
      [] pc = "except" -> {"store"}
      [] OTHER -> {}

on_batch_convert_clicked ==
    /\ bpc = "idle"
    /\ bpc' = "list"
    /\ is_running' = TRUE
    /\ bsig' = <<>>
    /\ UNCHANGED <<tvars, kvars, kb_id, dirs, docs, queue, pending_docs, idx, btotal, bprocessed, bnote, stopped_at, svars, convert_btn>>

\* where run is, relative to the document at loop position idx: before the
\* loop's check for it, between its terminal store write and the check for the
\* next document, or in the middle of its attempt
Phase(pc) ==
    CASE pc \in {"list", "loop"} -> "check"
      [] pc \in {"e100", "e_completed", "e_error"} -> "written"
      [] OTHER -> "middle"

stop ==
    /\ BatchLive
    /\ is_running
    /\ is_running' = FALSE
    /\ stopped_at' = [idx |-> idx, phase |-> Phase(bpc)]
    /\ UNCHANGED <<tvars, kvars, kb_id, dirs, docs, queue, bpc, pending_docs, idx, btotal, bprocessed, bsig, bnote, svars, convert_btn>>

BatchList ==
    /\ bpc = "list"
    /\ pending_docs' = get_pending_conversions(docs)
    /\ idx' = 1
    /\ bpc' = "loop"
    /\ UNCHANGED <<tvars, kvars, kb_id, dirs, docs, queue, is_running, btotal, bprocessed, bsig, bnote, stopped_at, svars, convert_btn>>

BatchLoopSkipsStopCheck ==
    /\ bpc = "loop"
    /\ bpc' = IF idx > Len(pending_docs) THEN "done" ELSE "mark"
    /\ UNCHANGED <<tvars, kvars, kb_id, dirs, docs, queue, pending_docs, idx, is_running, btotal, bprocessed, bsig, bnote, stopped_at, svars, convert_btn>>

\* for doc in pending_docs: if not self.is_running: break
BatchLoop ==
    /\ bpc = "loop"
    /\ bpc' = IF idx > Len(pending_docs) THEN "done"
              ELSE IF ~is_running THEN "stopped"
              ELSE "mark"
    /\ UNCHANGED <<tvars, kvars, kb_id, dirs, docs, queue, pending_docs, idx, is_running, btotal, bprocessed, bsig, bnote, stopped_at, svars, convert_btn>>

BatchMarkWithoutWrite ==
    /\ bpc = "mark"
    /\ bpc' = "mkdir"
    /\ UNCHANGED <<tvars, kvars, kb_id, dirs, docs, queue, pending_docs, idx, is_running, btotal, bprocessed, bsig, bnote, stopped_at, svars, convert_btn>>

BatchMark ==
    /\ bpc = "mark"
    /\ docs' = SetProgress(docs, Cur, "in_progress", Whole(0))
    /\ bpc' = "mkdir"
    /\ UNCHANGED <<tvars, kvars, kb_id, dirs, queue, pending_docs, idx, is_running, btotal, bprocessed, bsig, bnote, stopped_at, svars, convert_btn>>

BatchMkdir ==
    /\ bpc = "mkdir"
    /\ bpc' = "emit_started"
    /\ dirs' = makedirs(dirs, BatchOutputDir(Cur))
    /\ UNCHANGED <<tvars, kvars, kb_id, docs, queue, pending_docs, idx, is_running, btotal, bprocessed, bsig, bnote, stopped_at, svars, convert_btn>>

\* started.emit, then the TrackedPDFProcessor is constructed with both counters 0
BatchStarted ==
    /\ bpc = "emit_started"
    /\ BatchEmit(EvStarted(Cur), "convert")
    /\ btotal' = 0
    /\ bprocessed' = 0
    /\ UNCHANGED <<tvars, kvars, kb_id, dirs, docs, pending_docs, idx, is_running, bnote, stopped_at, svars, convert_btn>>

BatchConvert ==
    /\ bpc = "convert"
    /\ \E n \in 0..MaxPages :
        /\ btotal' = n
        /\ BatchEmit(EvPage(Cur, 0, n), "pages")
    /\ UNCHANGED <<tvars, kvars, kb_id, dirs, docs, pending_docs, idx, is_running, bprocessed, bnote, stopped_at, svars, convert_btn>>

BatchPageCall ==
    /\ bpc = "pages"
    /\ NextCall(bprocessed, btotal) = "process_page"
    /\ bprocessed' = bprocessed + 1
    /\ BatchEmit(EvProgress(Cur, PageProgress(bprocessed + 1, btotal)), "pp_page")
    /\ UNCHANGED <<tvars, kvars, kb_id, dirs, docs, pending_docs, idx, is_running, btotal, bnote, stopped_at, svars, convert_btn>>

\* process_page called by a converter that reported no pages: total_pages is 0
BatchPageCallNoTotal ==
    /\ bpc = "pages"
    /\ btotal = 0
    /\ bprocessed < MaxPages
    /\ bprocessed' = bprocessed + 1
    /\ BatchEmit(EvProgress(Cur, PageProgress(bprocessed + 1, btotal)), "pp_page")
    /\ UNCHANGED <<tvars, kvars, kb_id, dirs, docs, pending_docs, idx, is_running, btotal, bnote, stopped_at, svars, convert_btn>>

BatchPageEmit ==
    /\ bpc = "pp_page"
    /\ BatchEmit(EvPage(Cur, bprocessed, btotal), "pp_write")
    /\ UNCHANGED <<tvars, kvars, kb_id, dirs, docs, pending_docs, idx, is_running, btotal, bprocessed, bnote, stopped_at, svars, convert_btn>>

BatchPageWrite ==
    /\ bpc = "pp_write"
    /\ docs' = SetProgress(docs, Cur, "in_progress", PageProgress(bprocessed, btotal))
    /\ bpc' = "pages"
    /\ UNCHANGED <<tvars, kvars, kb_id, dirs, queue, pending_docs, idx, is_running, btotal, bprocessed, bsig, bnote, stopped_at, svars, convert_btn>>

BatchAsmEmit95 ==
    /\ bpc = "pages"
    /\ NextCall(bprocessed, btotal) = "create_editable_pdf"
    /\ BatchEmit(EvProgress(Cur, Whole(95)), "asm_w95")
    /\ UNCHANGED <<tvars, kvars, kb_id, dirs, docs, pending_docs, idx, is_running, btotal, bprocessed, bnote, stopped_at, svars, convert_btn>>

BatchAsmWrite95 ==
    /\ bpc = "asm_w95"
    /\ docs' = SetProgress(docs, Cur, "in_progress", Whole(95))
    /\ bpc' = "asm_call"
    /\ UNCHANGED <<tvars, kvars, kb_id, dirs, queue, pending_docs, idx, is_running, btotal, bprocessed, bsig, bnote, stopped_at, svars, convert_btn>>

BatchAsmCall ==
    /\ bpc = "asm_call"
    /\ bpc' = "asm_e99"
    /\ UNCHANGED <<tvars, kvars, kb_id, dirs, docs, queue, pending_docs, idx, is_running, btotal, bprocessed, bsig, bnote, stopped_at, svars, convert_btn>>

BatchAsmEmit99 ==
    /\ bpc = "asm_e99"
    /\ BatchEmit(EvProgress(Cur, Whole(99)), "asm_w99")
    /\ UNCHANGED <<tvars, kvars, kb_id, dirs, docs, pending_docs, idx, is_running, btotal, bprocessed, bnote, stopped_at, svars, convert_btn>>

BatchAsmWrite99 ==
    /\ bpc = "asm_w99"
    /\ docs' = SetProgress(docs, Cur, "in_progress", Whole(99))
    /\ bpc' = "verify"
    /\ UNCHANGED <<tvars, kvars, kb_id, dirs, queue, pending_docs, idx, is_running, btotal, bprocessed, bsig, bnote, stopped_at, svars, convert_btn>>

BatchVerifyAbortsOnStop ==
    /\ bpc = "verify"
    /\ bpc' = IF is_running THEN "w_completed" ELSE "stopped"
    /\ UNCHANGED <<tvars, kvars, kb_id, dirs, docs, queue, pending_docs, idx, is_running, btotal, bprocessed, bsig, bnote, stopped_at, svars, convert_btn>>

\* os.path.exists(output_path) holds
BatchVerify ==
    /\ bpc = "verify"
    /\ bpc' = "w_completed"
    /\ UNCHANGED <<tvars, kvars, kb_id, dirs, docs, queue, pending_docs, idx, is_running, btotal, bprocessed, bsig, bnote, stopped_at, svars, convert_btn>>

BatchWriteCompleted ==
    /\ bpc = "w_completed"
    /\ docs' = SetAll(docs, Cur, "completed", Whole(100), OutPath(Cur), btotal)
    /\ bpc' = "e100"
    /\ UNCHANGED <<tvars, kvars, kb_id, dirs, queue, pending_docs, idx, is_running, btotal, bprocessed, bsig, bnote, stopped_at, svars, convert_btn>>

BatchEmit100 ==
    /\ bpc = "e100"
    /\ BatchEmit(EvProgress(Cur, Whole(100)), "e_completed")
    /\ UNCHANGED <<tvars, kvars, kb_id, dirs, docs, pending_docs, idx, is_running, btotal, bprocessed, bnote, stopped_at, svars, convert_btn>>

BatchEmitCompleted ==
    /\ bpc = "e_completed"
    /\ BatchEmit(EvCompleted(Cur, OutPath(Cur), btotal), "loop")
    /\ NextDoc
    /\ UNCHANGED <<tvars, kvars, kb_id, dirs, docs, pending_docs, is_running, btotal, bprocessed, bnote, stopped_at, svars, convert_btn>>

\* a call inside the try block raises: control goes to the except clause
BatchRaises ==
    /\ \E why \in RaisesAt(bpc) : bnote' = [bnote EXCEPT ![Cur] = why]
    /\ bpc' = "except"
    /\ UNCHANGED <<tvars, kvars, kb_id, dirs, docs, queue, pending_docs, idx, is_running, btotal, bprocessed, bsig, stopped_at, svars, convert_btn>>

\* except Exception: update_document_conversion(doc_id, "failed", progress=0)
BatchExcept ==
    /\ bpc = "except"
    /\ docs' = SetProgress(docs, Cur, "failed", Whole(0))
    /\ bpc' = "e_error"
    /\ UNCHANGED <<tvars, kvars, kb_id, dirs, queue, pending_docs, idx, is_running, btotal, bprocessed, bsig, bnote, stopped_at, svars, convert_btn>>

BatchEmitErrorBreaks ==
    /\ bpc = "e_error"
    /\ BatchEmit(EvError(Cur), "done")
    /\ NextDoc
    /\ UNCHANGED <<tvars, kvars, kb_id, dirs, docs, pending_docs, is_running, btotal, bprocessed, bnote, stopped_at, svars, convert_btn>>

BatchEmitError ==
    /\ bpc = "e_error"
    /\ BatchEmit(EvError(Cur), "loop")
    /\ NextDoc
    /\ UNCHANGED <<tvars, kvars, kb_id, dirs, docs, pending_docs, is_running, btotal, bprocessed, bnote, stopped_at, svars, convert_btn>>

\* a call outside the try block, or inside the except clause, raises: nothing
\* in run catches it
BatchEscapes ==
    /\ \E why \in EscapesAt(bpc) :
        bnote' = IF bpc \in {"mark", "mkdir"} THEN [bnote EXCEPT ![Cur] = why] ELSE bnote
    /\ bpc' = "escaped"
    /\ UNCHANGED <<tvars, kvars, kb_id, dirs, docs, queue, pending_docs, idx, is_running, btotal, bprocessed, bsig, stopped_at, svars, convert_btn>>

\* ------------------------------------------- PDFManagementDialog's slots
Head1 == Head(queue)

on_conversion_progress ==
    /\ queue /= <<>>
    /\ Head1.type = "progress"
    /\ docs' = SetProgress(docs, Head1.doc, "in_progress", Head1.p)
    /\ queue' = Tail(queue)
    /\ UNCHANGED <<tvars, kvars, kb_id, dirs, bvars, svars, convert_btn>>

on_conversion_completedWithoutPageCount ==
    /\ queue /= <<>>
    /\ Head1.type = "completed"
    /\ docs' = update_document_conversion(docs, Head1.doc, "completed",
                    Supplied(Whole(100)), Supplied(Head1.path), Omitted)
    /\ queue' = Tail(queue)
    /\ UNCHANGED <<tvars, kvars, kb_id, dirs, bvars, svars, convert_btn>>

on_conversion_completed ==
    /\ queue /= <<>>
    /\ Head1.type = "completed"
    /\ docs' = SetAll(docs, Head1.doc, "completed", Whole(100), Head1.path, Head1.tot)
    /\ queue' = Tail(queue)
    /\ UNCHANGED <<tvars, kvars, kb_id, dirs, bvars, svars, convert_btn>>

on_conversion_errorKeepsProgress ==
    /\ queue /= <<>>
    /\ Head1.type = "error"
    /\ docs' = [docs EXCEPT ![Head1.doc].status = "failed"]
    /\ queue' = Tail(queue)
    /\ UNCHANGED <<tvars, kvars, kb_id, dirs, bvars, svars, convert_btn>>

on_conversion_error ==
    /\ queue /= <<>>
    /\ Head1.type = "error"
    /\ docs' = SetProgress(docs, Head1.doc, "failed", Whole(0))
    /\ queue' = Tail(queue)
    /\ UNCHANGED <<tvars, kvars, kb_id, dirs, bvars, svars, convert_btn>>

Slots == on_conversion_progress \/ on_conversion_completed \/ on_conversion_error

BatchStep ==
    \/ BatchList \/ BatchLoop \/ BatchMark \/ BatchMkdir \/ BatchStarted
    \/ BatchConvert \/ BatchPageCall \/ BatchPageEmit \/ BatchPageWrite
    \/ BatchAsmEmit95 \/ BatchAsmWrite95 \/ BatchAsmCall \/ BatchAsmEmit99
    \/ BatchAsmWrite99 \/ BatchVerify \/ BatchWriteCompleted \/ BatchEmit100
    \/ BatchEmitCompleted \/ BatchRaises \/ BatchExcept \/ BatchEmitError
    \/ BatchEscapes


\* --------------------------------------------------- PDFConversionWorker
SingleEmit(e, pc) ==
    /\ CanEmit(e)
    /\ ssig' = Append(ssig, e)
    /\ queue' = Post(e)
    /\ spc' = pc

SingleRaisesAtChecksOutputLate(pc) ==
    CASE pc = "mkdir" -> {"mkdir"}
      [] pc = "convert" -> {"source_missing", "converter"}
      [] pc = "pages" -> IF NextCall(sprocessed, stotal) = "process_page"
                         THEN {"converter"} ELSE {}
      [] pc = "asm_call" -> {"converter"}
      [] pc = "e_completed" -> {"output_missing"}
      [] OTHER -> {}

\* the positions inside run's try block at which a call can raise
SingleRaisesAt(pc) ==
    CASE pc = "mkdir" -> {"mkdir"}
      [] pc = "convert" -> {"source_missing", "converter"}
      [] pc = "pages" -> IF NextCall(sprocessed, stotal) = "process_page"
                         THEN {"converter"} ELSE {}
      [] pc = "asm_call" -> {"converter"}
      [] pc = "verify" -> {"output_missing"}
      [] OTHER -> {}

refresh_document_list ==
    /\ convert_btn' = HasConvertButton(docs)
    /\ convert_btn' /= convert_btn
    /\ UNCHANGED <<tvars, kvars, kb_id, dirs, docs, queue, bvars, svars>>

\* Add Document: one file is chosen and copied, its row is inserted with the
\* next id and the list is rebuilt. (Answering Yes to "start converting now"
\* is the start_conversion of the new document.)
on_add_document_clicked(is_scanned) ==
    /\ RowCount(docs) < NumDocs
    /\ docs' = [docs EXCEPT ![RowCount(docs) + 1] = NewRow(is_scanned)]
    /\ \E k \in KbIds :
        /\ kbs[k] /= NoKb
        /\ kb_id' = [kb_id EXCEPT ![RowCount(docs) + 1] = k]
    /\ convert_btn' = HasConvertButton(docs')
    /\ UNCHANGED <<tvars, kvars, dirs, queue, bvars, svars>>

start_conversionOfAnyRow(d) ==
    /\ docs[d] /= NoRow
    /\ docs[d] /= NoRow
    /\ get_knowledge_base_by_id(kbs, kb_id[d]) /= NoKb
    /\ spc \in {"idle", "done"}
    /\ attempts < MaxAttempts
    /\ dirs' = makedirs(dirs, SingleOutputDir(d))
    /\ docs' = SetProgress(docs, d, "in_progress", Whole(0))
    /\ spc' = "emit_started"
    /\ sdoc' = d
    /\ sfrom' = docs[d].status
    /\ stotal' = 0
    /\ sprocessed' = 0
    /\ ssig' = <<>>
    /\ snote' = "none"
    /\ attempts' = attempts + 1
    /\ UNCHANGED <<tvars, kvars, kb_id, queue, bvars, convert_btn>>

\* The Convert button of document d is clicked: the row is marked, a worker is
\* built (with a signals object of its own) and handed to the thread pool.
\* (One single-document task runs at a time here; the pool would take more.)
start_conversion(d) ==
    /\ d \in convert_btn
    /\ docs[d] /= NoRow
    /\ get_knowledge_base_by_id(kbs, kb_id[d]) /= NoKb
    /\ spc \in {"idle", "done"}
    /\ attempts < MaxAttempts
    /\ dirs' = makedirs(dirs, SingleOutputDir(d))
    /\ docs' = SetProgress(docs, d, "in_progress", Whole(0))
    /\ spc' = "emit_started"
    /\ sdoc' = d
    /\ sfrom' = docs[d].status
    /\ stotal' = 0
    /\ sprocessed' = 0
    /\ ssig' = <<>>
    /\ snote' = "none"
    /\ attempts' = attempts + 1
    /\ UNCHANGED <<tvars, kvars, kb_id, queue, bvars, convert_btn>>

SingleStartedNotEmitted ==
    /\ spc = "emit_started"
    /\ spc' = "mkdir"
    /\ UNCHANGED <<tvars, kvars, kb_id, dirs, docs, queue, bvars, sdoc, sfrom, stotal, sprocessed, ssig, snote, attempts, convert_btn>>

SingleStarted ==
    /\ spc = "emit_started"
    /\ SingleEmit(EvStarted(sdoc), "mkdir")
    /\ UNCHANGED <<tvars, kvars, kb_id, dirs, docs, bvars, sdoc, sfrom, stotal, sprocessed, snote, attempts, convert_btn>>

\* if not os.path.exists(self.output_dir): os.makedirs(self.output_dir)
SingleMkdir ==
    /\ spc = "mkdir"
    /\ spc' = "convert"
    /\ dirs' = makedirs(dirs, SingleOutputDir(sdoc))
    /\ UNCHANGED <<tvars, kvars, kb_id, docs, queue, bvars, sdoc, sfrom, stotal, sprocessed, ssig, snote, attempts, convert_btn>>

SingleConvert ==
    /\ spc = "convert"
    /\ \E n \in 0..MaxPages :
        /\ stotal' = n
        /\ SingleEmit(EvPage(sdoc, 0, n), "pages")
    /\ UNCHANGED <<tvars, kvars, kb_id, dirs, docs, bvars, sdoc, sfrom, sprocessed, snote, attempts, convert_btn>>

SinglePageCall ==
    /\ spc = "pages"
    /\ NextCall(sprocessed, stotal) = "process_page"
    /\ sprocessed' = sprocessed + 1
    /\ SingleEmit(EvProgress(sdoc, PageProgress(sprocessed + 1, stotal)), "pp_page")
    /\ UNCHANGED <<tvars, kvars, kb_id, dirs, docs, bvars, sdoc, sfrom, stotal, snote, attempts, convert_btn>>

\* process_page called by a converter that reported no pages: total_pages is 0
SinglePageCallNoTotal ==
    /\ spc = "pages"
    /\ stotal = 0
    /\ sprocessed < MaxPages
    /\ sprocessed' = sprocessed + 1
    /\ SingleEmit(EvProgress(sdoc, PageProgress(sprocessed + 1, stotal)), "pp_page")
    /\ UNCHANGED <<tvars, kvars, kb_id, dirs, docs, bvars, sdoc, sfrom, stotal, snote, attempts, convert_btn>>

SinglePageEmitTotalAsCurrent ==
    /\ spc = "pp_page"
    /\ SingleEmit(EvPage(sdoc, stotal, stotal), "pages")
    /\ UNCHANGED <<tvars, kvars, kb_id, dirs, docs, bvars, sdoc, sfrom, stotal, sprocessed, snote, attempts, convert_btn>>

SinglePageEmit ==
    /\ spc = "pp_page"
    /\ SingleEmit(EvPage(sdoc, sprocessed, stotal), "pages")
    /\ UNCHANGED <<tvars, kvars, kb_id, dirs, docs, bvars, sdoc, sfrom, stotal, sprocessed, snote, attempts, convert_btn>>

SingleAsmEmit95 ==
    /\ spc = "pages"
    /\ NextCall(sprocessed, stotal) = "create_editable_pdf"
    /\ SingleEmit(EvProgress(sdoc, Whole(95)), "asm_call")
    /\ UNCHANGED <<tvars, kvars, kb_id, dirs, docs, bvars, sdoc, sfrom, stotal, sprocessed, snote, attempts, convert_btn>>

SingleAsmCall ==
    /\ spc = "asm_call"
    /\ spc' = "asm_e99"
    /\ UNCHANGED <<tvars, kvars, kb_id, dirs, docs, queue, bvars, sdoc, sfrom, stotal, sprocessed, ssig, snote, attempts, convert_btn>>

SingleAsmEmit99 ==
    /\ spc = "asm_e99"
    /\ SingleEmit(EvProgress(sdoc, Whole(99)), "verify")
    /\ UNCHANGED <<tvars, kvars, kb_id, dirs, docs, bvars, sdoc, sfrom, stotal, sprocessed, snote, attempts, convert_btn>>

\* os.path.exists(output_path) holds
SingleVerify ==
    /\ spc = "verify"
    /\ spc' = "e100"
    /\ UNCHANGED <<tvars, kvars, kb_id, dirs, docs, queue, bvars, sdoc, sfrom, stotal, sprocessed, ssig, snote, attempts, convert_btn>>

SingleEmit100 ==
    /\ spc = "e100"
    /\ SingleEmit(EvProgress(sdoc, Whole(100)), "e_completed")
    /\ UNCHANGED <<tvars, kvars, kb_id, dirs, docs, bvars, sdoc, sfrom, stotal, sprocessed, snote, attempts, convert_btn>>

SingleEmitCompleted ==
    /\ spc = "e_completed"
    /\ SingleEmit(EvCompleted(sdoc, OutPath(sdoc), stotal), "done")
    /\ UNCHANGED <<tvars, kvars, kb_id, dirs, docs, bvars, sdoc, sfrom, stotal, sprocessed, snote, attempts, convert_btn>>

\* a call inside the try block raises: control goes to the except clause
SingleRaises ==
    /\ \E why \in SingleRaisesAt(spc) : snote' = why
    /\ spc' = "except"
    /\ UNCHANGED <<tvars, kvars, kb_id, dirs, docs, queue, bvars, sdoc, sfrom, stotal, sprocessed, ssig, attempts, convert_btn>>

\* except Exception as e: self.signals.error.emit(...)
SingleEmitError ==
    /\ spc = "except"
    /\ SingleEmit(EvError(sdoc), "done")
    /\ UNCHANGED <<tvars, kvars, kb_id, dirs, docs, bvars, sdoc, sfrom, stotal, sprocessed, snote, attempts, convert_btn>>

SingleStep ==
    \/ SingleStarted \/ SingleMkdir \/ SingleConvert \/ SinglePageCall
    \/ SinglePageEmit \/ SingleAsmEmit95 \/ SingleAsmCall \/ SingleAsmEmit99
    \/ SingleVerify \/ SingleEmit100 \/ SingleEmitCompleted \/ SingleRaises
    \/ SingleEmitError

\* ------------------------------------------------------------- the system
\* One behaviour uses one kind of task: a batch run, or single-document tasks
\* dispatched from the Convert buttons. The slots run on the GUI thread at any
\* time a signal is waiting for them.
BatchSide ==
    /\ attempts = 0
    /\ on_batch_convert_clicked

SingleSide ==
    /\ bpc = "idle"
    /\ \/ \E d \in DocIds : start_conversion(d)
       \/ refresh_document_list

AddDocument == \E is_scanned \in BOOLEAN : on_add_document_clicked(is_scanned)

Next ==
    \/ BatchSide \/ stop \/ BatchStep \/ SingleSide \/ SingleStep \/ Slots
    \/ AddDocument

Spec == Init /\ [][Next]_vars

\* The same system with a converter that does not keep to the call order: it
\* may call process_page although discovery reported no pages.
NextNoTotal == Next \/ BatchPageCallNoTotal \/ SinglePageCallNoTotal

SpecNoTotal == Init /\ [][NextNoTotal]_vars

\* Both kinds of task at once, as the dialog allows: Batch Convert and the
\* Convert buttons stay enabled while a task runs and neither handler looks at
\* the other's tasks. This system follows the runs in which no call raises and
\* stop is not called, with one single-document task beside the batch run.
ConvertClick ==
    /\ attempts = 0
    /\ \E d \in DocIds : start_conversion(d)

BatchStepNoFault ==
    \/ BatchList \/ BatchLoop \/ BatchMark \/ BatchMkdir \/ BatchStarted
    \/ BatchConvert \/ BatchPageCall \/ BatchPageEmit \/ BatchPageWrite
    \/ BatchAsmEmit95 \/ BatchAsmWrite95 \/ BatchAsmCall \/ BatchAsmEmit99
    \/ BatchAsmWrite99 \/ BatchVerify \/ BatchWriteCompleted \/ BatchEmit100
    \/ BatchEmitCompleted

SingleStepNoFault ==
    \/ SingleStarted \/ SingleMkdir \/ SingleConvert \/ SinglePageCall
    \/ SinglePageEmit \/ SingleAsmEmit95 \/ SingleAsmCall \/ SingleAsmEmit99
    \/ SingleVerify \/ SingleEmit100 \/ SingleEmitCompleted

NextConcurrent ==
    \/ on_batch_convert_clicked \/ BatchStepNoFault
    \/ ConvertClick \/ refresh_document_list \/ SingleStepNoFault
    \/ on_conversion_progress \/ on_conversion_completed

SpecConcurrent == Init /\ [][NextConcurrent]_vars

\* ----------------------------------------------------- the store's operations
\* The operations of DBManager and LLMProcessor called one after another on a
\* store that starts empty, each with any arguments; op is the call and ret
\* what it returned. No task runs here: the dialog part of the state is idle.
MaxOps == 3         \* store operations called in one behaviour

UpdateStatuses == {"in_progress", "completed", "failed"}
ProgressArgs == {Omitted, Supplied(Whole(0)), Supplied(Whole(100))}
PathArgs == {Omitted, Supplied(OutPath(1))}
PageArgs == {Omitted, Supplied(0), Supplied(MaxPages)}

\* LLMProcessor.__init__ on a new database: no rows, and the base directory
InitStore ==
    /\ docs = [d \in DocIds |-> NoRow]
    /\ kbs = [k \in KbIds |-> NoKb]
    /\ kb_id = [d \in DocIds |-> 0]
    /\ dirs = makedirs({}, base_dir)
    /\ op = NoOp
    /\ ret = Unset
    /\ tpc = [t \in Threads |-> "none"]
    /\ tval = [t \in Threads |-> 0]
    /\ queue = <<>>
    /\ bpc = "idle"
    /\ pending_docs = <<>>
    /\ idx = 1
    /\ is_running = TRUE
    /\ btotal = 0
    /\ bprocessed = 0
    /\ bsig = <<>>
    /\ bnote = [d \in DocIds |-> "none"]
    /\ stopped_at = [idx |-> 0, phase |-> "never"]
    /\ spc = "idle"
    /\ sdoc = 1
    /\ sfrom = "none"
    /\ stotal = 0
    /\ sprocessed = 0
    /\ ssig = <<>>
    /\ snote = "none"
    /\ attempts = 0
    /\ convert_btn = {}

\* the call is recorded; the dialog part of the state is not involved
Called(call) ==
    /\ op.seq < MaxOps
    /\ op' = [call EXCEPT !.seq = op.seq + 1]
    /\ UNCHANGED <<tvars, queue, bvars, svars, convert_btn>>

Call(name) ==
    [name |-> name, seq |-> 0, kb |-> 0, kb_name |-> "", doc_id |-> 0,
     is_scanned |-> FALSE, status |-> "", progress |-> Omitted,
     converted_path |-> Omitted, page_count |-> Omitted]

add_knowledge_baseWithoutUnique(tbl, name, directory) ==
    <<[tbl EXCEPT ![KbCount(tbl) + 1] = [name |-> name, directory |-> directory]],
      KbCount(tbl) + 1>>

\* INSERT INTO knowledge_bases (name, directory): name is UNIQUE, so a second
\* row of the same name is an IntegrityError, which is caught (the value is
\* <<table, returned id>>, id 0 for None)
add_knowledge_base(tbl, name, directory) ==
    IF get_knowledge_base_id(tbl, name) /= 0 THEN <<tbl, 0>>
    ELSE <<[tbl EXCEPT ![KbCount(tbl) + 1] = [name |-> name, directory |-> directory]],
           KbCount(tbl) + 1>>

AddKnowledgeBaseCall ==
    \E name \in KbNames, directory \in {join(base_dir, n) : n \in KbNames} :
        /\ KbCount(kbs) < MaxKbs
        /\ Called([Call("add_knowledge_base") EXCEPT !.kb_name = name])
        /\ kbs' = add_knowledge_base(kbs, name, directory)[1]
        /\ ret' = IF add_knowledge_base(kbs, name, directory)[2] = 0 THEN RetNone
                  ELSE RetInt(add_knowledge_base(kbs, name, directory)[2])
        /\ UNCHANGED <<docs, kb_id, dirs>>

\* LLMProcessor.create_kb
CreateKbCall ==
    \E name \in KbNames :
        LET kb_dir == join(base_dir, name)
            added == add_knowledge_base(kbs, name, kb_dir)
        IN  /\ KbCount(kbs) < MaxKbs
            /\ Called([Call("create_kb") EXCEPT !.kb_name = name])
            /\ IF kb_dir \notin dirs
               THEN /\ dirs' = makedirs(makedirs(dirs, kb_dir), join(kb_dir, "converted"))
                    /\ kbs' = added[1]
                    /\ ret' = RetBool(added[2] /= 0)
               ELSE /\ ret' = RetBool(FALSE)
                    /\ UNCHANGED <<kbs, dirs>>
            /\ UNCHANGED <<docs, kb_id>>

\* DBManager.add_document: the INSERT names kb_id without looking it up (the
\* connection does not turn foreign keys on), and the new id is returned
AddDocumentCall ==
    \E k \in 1..(MaxKbs + 1), is_scanned \in BOOLEAN :
        /\ RowCount(docs) < NumDocs
        /\ Called([Call("add_document") EXCEPT !.kb = k, !.is_scanned = is_scanned])
        /\ docs' = [docs EXCEPT ![RowCount(docs) + 1] = NewRow(is_scanned)]
        /\ kb_id' = [kb_id EXCEPT ![RowCount(docs) + 1] = k]
        /\ ret' = RetInt(RowCount(docs) + 1)
        /\ UNCHANGED <<kbs, dirs>>

\* LLMProcessor.add_document_to_kb: None for a name that has no row and when
\* the copy fails, else the file is copied and add_document's id returned
AddDocumentToKbCall ==
    \E name \in KbNames, is_scanned \in BOOLEAN, copied \in BOOLEAN :
        LET k == get_knowledge_base_id(kbs, name)
        IN  /\ RowCount(docs) < NumDocs
            /\ Called([Call("add_document_to_kb") EXCEPT !.kb_name = name,
                                                        !.is_scanned = is_scanned])
            /\ IF k /= 0 /\ copied
               THEN /\ docs' = [docs EXCEPT ![RowCount(docs) + 1] = NewRow(is_scanned)]
                    /\ kb_id' = [kb_id EXCEPT ![RowCount(docs) + 1] = k]
                    /\ ret' = RetInt(RowCount(docs) + 1)
               ELSE /\ ret' = RetNone
                    /\ UNCHANGED <<docs, kb_id>>
            /\ UNCHANGED <<kbs, dirs>>

\* DBManager.update_document_conversion: the method has no return statement
UpdateCall ==
    \E doc_id \in 1..(NumDocs + 1), status \in UpdateStatuses,
       progress \in ProgressArgs, converted_path \in PathArgs, page_count \in PageArgs :
        /\ Called([Call("update_document_conversion") EXCEPT
                     !.doc_id = doc_id, !.status = status, !.progress = progress,
                     !.converted_path = converted_path, !.page_count = page_count])
        /\ docs' = update_document_conversion(docs, doc_id, status, progress,
                                              converted_path, page_count)
        /\ ret' = RetNone
        /\ UNCHANGED <<kbs, kb_id, dirs>>

NextStore ==
    \/ AddKnowledgeBaseCall \/ CreateKbCall \/ AddDocumentCall
    \/ AddDocumentToKbCall \/ UpdateCall

SpecStore == InitStore /\ [][NextStore]_vars

\* ------------------------------------------- process_page called from threads
\* A converter that hands the pages of one document to threads of its own:
\* each thread runs the overridden process_page once. The statement
\* self.processed_pages += 1 is a load, an addition and a store, and the two
\* emissions read self.processed_pages again, each time it is needed; a thread
\* can be suspended between any two of these.
ThreadsStart ==
    /\ spc = "pages"
    /\ stotal > 0
    /\ sprocessed = 0
    /\ spc' = "threads"
    /\ tpc' = [t \in Threads |-> IF t <= stotal THEN "load" ELSE "none"]
    /\ UNCHANGED <<tval, kvars, kb_id, dirs, docs, queue, bvars, sdoc, sfrom, stotal, sprocessed, ssig, snote, attempts, convert_btn>>

\* self.processed_pages += 1: the attribute is read
ThreadLoad(t) ==
    /\ tpc[t] = "load"
    /\ tval' = [tval EXCEPT ![t] = sprocessed]
    /\ tpc' = [tpc EXCEPT ![t] = "store"]
    /\ UNCHANGED <<kvars, kb_id, dirs, docs, queue, bvars, svars, convert_btn>>

\* self.processed_pages += 1: the sum is stored
ThreadStore(t) ==
    /\ tpc[t] = "store"
    /\ sprocessed' = tval[t] + 1
    /\ tpc' = [tpc EXCEPT ![t] = "progress"]
    /\ UNCHANGED <<tval, kvars, kb_id, dirs, docs, queue, bvars, spc, sdoc, sfrom, stotal, ssig, snote, attempts, convert_btn>>

\* progress = (self.processed_pages / self.total_pages) * 95 ...; progress.emit
ThreadEmitProgress(t) ==
    /\ tpc[t] = "progress"
    /\ SingleEmit(EvProgress(sdoc, PageProgress(sprocessed, stotal)), spc)
    /\ tpc' = [tpc EXCEPT ![t] = "page"]
    /\ UNCHANGED <<tval, kvars, kb_id, dirs, docs, bvars, sdoc, sfrom, stotal, sprocessed, snote, attempts, convert_btn>>

\* page_processed.emit(doc_id, self.processed_pages, self.total_pages)
ThreadEmitPage(t) ==
    /\ tpc[t] = "page"
    /\ SingleEmit(EvPage(sdoc, sprocessed, stotal), spc)
    /\ tpc' = [tpc EXCEPT ![t] = "done"]
    /\ UNCHANGED <<tval, kvars, kb_id, dirs, docs, bvars, sdoc, sfrom, stotal, sprocessed, snote, attempts, convert_btn>>

ThreadStep ==
    \E t \in Threads :
        \/ ThreadLoad(t) \/ ThreadStore(t) \/ ThreadEmitProgress(t) \/ ThreadEmitPage(t)

\* one single-document task, up to the end of its page calls
NextThreads ==
    \/ ConvertClick \/ SingleStarted \/ SingleMkdir \/ SingleConvert
    \/ ThreadsStart \/ ThreadStep
    \/ on_conversion_progress

SpecThreads == Init /\ [][NextThreads]_vars

\* ==================================================================== claims
Terminal == {"completed", "error"}

OfType(sig, types) == SelectSeq(sig, LAMBDA e : e.type \in types)

OfDoc(sig, d) == SelectSeq(sig, LAMBDA e : e.doc = d)

Last(sq) == sq[Len(sq)]

\* the single-document task has returned from run
SingleReturned == spc = "done"

\* C1: in every run of the single-document task, whatever step raises,
\* `started` is the first signal and is emitted once, every other signal
\* follows it, a terminal signal (completed or error) is the last signal of the
\* run, no terminal signal is emitted before run returns more than once, and
\* when run has returned exactly one terminal signal has been emitted.
C1_SingleEventOrder ==
    LET T == {i \in 1..Len(ssig) : ssig[i].type \in Terminal} IN
    /\ \A i \in 1..Len(ssig) : (ssig[i].type = "started") <=> (i = 1)
    /\ \A i \in 1..Len(ssig) : ssig[i].doc = sdoc
    /\ \A i \in T : i = Len(ssig)
    /\ T /= {} => SingleReturned
    /\ SingleReturned => Cardinality(T) = 1

\* a run in which the converter raised after pages had been reported
C1_Witness ==
    /\ SingleReturned
    /\ snote = "converter"
    /\ Last(ssig).type = "error"
    /\ Len(OfType(ssig, {"progress"})) >= 2

\* C9: within one conversion attempt (the single-document task, or one
\* document of a batch run) the values of the emitted `progress` signals are
\* non-decreasing in emission order, the converter calling discovery once,
\* process_page once per page and assembly once.
NonDecreasing(sq) ==
    \A i, j \in 1..Len(sq) : i < j => Leq(sq[i].p, sq[j].p)

C9_ProgressNonDecreasing ==
    /\ NonDecreasing(OfType(ssig, {"progress"}))
    /\ \A d \in DocIds : NonDecreasing(OfType(OfDoc(bsig, d), {"progress"}))

\* a batch attempt of a document with the most pages has emitted every
\* progress value up to 100
C9_Witness ==
    /\ bpc = "e_completed"
    /\ btotal = MaxPages
    /\ Len(OfType(OfDoc(bsig, Cur), {"progress"})) = MaxPages + 3

\* C10 as stated: after a successful single-document conversion of N pages
\* the page_processed signals carry current = 1, 2, ..., N, each with total N,
\* and the progress signal right before completed carries 100.
SingleSucceeded == SingleReturned /\ Last(ssig).type = "completed"

FinalProgressIs100 ==
    /\ Len(ssig) >= 2
    /\ ssig[Len(ssig) - 1].type = "progress"
    /\ ssig[Len(ssig) - 1].p = Whole(100)

C10_PagesFromOne ==
    SingleSucceeded =>
        LET pp == OfType(ssig, {"page_processed"}) IN
        /\ Len(pp) = stotal
        /\ \A i \in 1..Len(pp) : pp[i].cur = i /\ pp[i].tot = stotal
        /\ FinalProgressIs100

\* C10 amended: the page_processed signals carry current = 0, 1, ..., N (the
\* discovery step reports current 0 first), each with total N, completed
\* carries N, and the progress signal right before completed carries 100.
C10_PagesFromZero ==
    SingleSucceeded =>
        LET pp == OfType(ssig, {"page_processed"}) IN
        /\ Len(pp) = stotal + 1
        /\ \A i \in 1..Len(pp) : pp[i].cur = i - 1 /\ pp[i].tot = stotal
        /\ Last(ssig).tot = stotal
        /\ FinalProgressIs100

C10_Witness == SingleSucceeded /\ stotal = MaxPages

\* ------------------------------------------------------ batch run claims
\* the batch run is over: the list was exhausted, the stop flag was seen, or
\* an exception left run
BatchOver == bpc \in {"done", "stopped", "escaped"}

ListIdx == 1..Len(pending_docs)

HasEvent(d, types) == \E i \in 1..Len(bsig) : bsig[i].doc = d /\ bsig[i].type \in types

Terminals(d) == Len(OfType(OfDoc(bsig, d), Terminal))

\* C2: the persisted conversion_status of a document, whoever writes it,
\* only changes along pending->in_progress, failed->in_progress,
\* in_progress->completed and in_progress->failed; completed is never
\* overwritten.
StatusEdges ==
    {<<"pending", "in_progress">>, <<"failed", "in_progress">>,
     <<"in_progress", "completed">>, <<"in_progress", "failed">>}

C2_StatusEdgesOnly ==
    [][\A d \in DocIds :
          docs[d] /= NoRow /\ docs'[d].status /= docs[d].status
              => <<docs[d].status, docs'[d].status>> \in StatusEdges]_vars

\* C3: no exception leaves run of either task, and every failure met while a
\* document is being processed in the batch ends in an error signal for that
\* document and a persisted `failed` status.
C3_NothingEscapes ==
    /\ bpc /= "escaped"
    /\ (BatchOver /\ queue = <<>>) =>
          \A d \in DocIds : bnote[d] /= "none" =>
              HasEvent(d, {"error"}) /\ docs[d].status = "failed"

\* C4: in a batch run a filesystem failure of one document (output directory
\* not creatable, source file missing, output file missing after conversion)
\* fails that document alone: it gets an error signal and a persisted
\* `failed` status, and the run goes on with the rest of its list.
FsFailures == {"mkdir", "source_missing", "output_missing"}

C4_FsFailureIsLocal ==
    \A d \in DocIds : bnote[d] \in FsFailures =>
        /\ bpc /= "escaped"
        /\ (BatchOver /\ queue = <<>>) =>
              /\ HasEvent(d, {"error"})
              /\ docs[d].status = "failed"
              /\ stopped_at.idx = 0 => \A i \in ListIdx : HasEvent(pending_docs[i], {"started"})

\* C5: when a batch run has gone through its whole list and
\* the slots have handled every signal, every document of the list was
\* attempted; one whose attempt did not raise is persisted completed with
\* progress 100 and got no error signal, one whose attempt raised is persisted
\* failed with progress 0 and got an error signal.
C5_EveryDocumentSettled ==
    (bpc = "done" /\ queue = <<>>) =>
        \A i \in ListIdx :
            LET d == pending_docs[i] IN
            /\ HasEvent(d, {"started"})
            /\ Terminals(d) = 1
            /\ IF bnote[d] = "none"
               THEN /\ docs[d].status = "completed"
                    /\ docs[d].progress = Whole(100)
                    /\ HasEvent(d, {"completed"})
               ELSE /\ docs[d].status = "failed"
                    /\ docs[d].progress = Whole(0)
                    /\ HasEvent(d, {"error"})

\* the first document's converter raised after a page, the next one succeeded
C5_Witness ==
    /\ bpc = "done"
    /\ queue = <<>>
    /\ Len(pending_docs) = NumDocs
    /\ bnote[pending_docs[1]] = "converter"
    /\ Len(OfType(OfDoc(bsig, pending_docs[1]), {"progress"})) >= 1
    /\ bnote[pending_docs[NumDocs]] = "none"

\* a document the batch run never reached: no signal, row as add_document left it
Untouched(d) ==
    /\ ~ HasEvent(d, {"started", "progress", "page_processed", "completed", "error"})
    /\ docs[d].status = "pending"
    /\ docs[d].progress = Whole(0)
    /\ docs[d].converted_path = NoPath

\* C6: if stop() is called after the terminal store write of the document at
\* loop position k and before the loop's check for position k+1, the
\* documents at positions k+1.. are never marked in_progress, get no signal,
\* and their rows stay (pending, 0).
FirstDropped == IF stopped_at.phase = "written" THEN stopped_at.idx + 1 ELSE stopped_at.idx

C6_StopBetweenDocuments ==
    stopped_at.phase \in {"written", "check"} =>
        /\ \A i \in ListIdx : i >= FirstDropped => Untouched(pending_docs[i])
        /\ bpc \notin {"idle", "list"} => idx <= FirstDropped
        /\ bpc /= "done" \/ FirstDropped > Len(pending_docs)

\* stop() came after the first document's terminal write, the run has ended
\* and left a document behind
C6_Witness ==
    /\ stopped_at = [idx |-> 1, phase |-> "written"]
    /\ bpc = "stopped"
    /\ Len(pending_docs) >= 2
    /\ Terminals(pending_docs[1]) = 1

\* C7: if stop() is called in the middle of the attempt of the document at
\* loop position k, the attempt is not cut short: the loop exits only at the
\* check for position k+1, by then the document has exactly one terminal
\* signal and (the slots having handled every signal) a persisted completed
\* or failed status agreeing with it, and no later document is started.
C7_StopInTheMiddle ==
    stopped_at.phase = "middle" =>
        LET k == stopped_at.idx
            d == pending_docs[k] IN
        /\ \A i \in ListIdx : i > k => Untouched(pending_docs[i])
        /\ Terminals(d) <= 1
        /\ bpc \in {"done", "stopped"} =>
              /\ idx = k + 1
              /\ Terminals(d) = 1
              /\ HasEvent(d, {"started"})
              /\ queue = <<>> =>
                    docs[d].status = (IF HasEvent(d, {"completed"}) THEN "completed" ELSE "failed")

\* stop() came while the first document's pages were being processed; the
\* attempt went on to completed and the loop then exited before the next one
C7_Witness ==
    /\ stopped_at = [idx |-> 1, phase |-> "middle"]
    /\ bpc = "stopped"
    /\ queue = <<>>
    /\ Len(pending_docs) >= 2
    /\ HasEvent(pending_docs[1], {"completed"})
    /\ docs[pending_docs[1]].page_count = MaxPages

\* C8: from the write that marks a document in_progress on, the progress
\* persisted for it never decreases from one store write to the next, whoever
\* writes it (the batch worker, its terminal write, or the slots). The
\* statement is checked on every write but two kinds: the marking write that
\* opens an attempt, and a write of status `failed`, whose reset of the
\* progress to 0 is what the batch task is meant to do.
MarkingWrite == BatchMark \/ \E d \in DocIds : start_conversion(d)

C8_PersistedProgressMonotone ==
    [][~ MarkingWrite =>
          \A d \in DocIds :
              docs'[d].status /= "failed" => Leq(docs[d].progress, docs'[d].progress)]_vars

\* C11: in a conversion attempt (single-document or one document of a batch
\* run) progress 100 and completed are emitted only after the check that the
\* output file exists has passed; when assembly returned (progress 99 was
\* emitted) but the output file is absent, the attempt ends with an error
\* signal and neither progress 100 nor completed is emitted for it.
Success(sig) ==
    SelectSeq(sig, LAMBDA e : e.type = "completed"
                                \/ (e.type = "progress" /\ e.p = Whole(100)))

\* the batch attempt of d has reached its terminal emission
BatchAttemptOver(d) ==
    \E i \in ListIdx : pending_docs[i] = d /\ (i < idx \/ bpc \in {"done", "stopped"})

C11_SuccessOnlyAfterOutputVerified ==
    /\ Success(ssig) /= <<>> => snote = "none" /\ spc \in {"e_completed", "done"}
    /\ snote = "output_missing" =>
          /\ Success(ssig) = <<>>
          /\ Last(OfType(ssig, {"progress"})).p = Whole(99)
          /\ SingleReturned => Last(ssig).type = "error"
    /\ \A d \in DocIds :
          /\ Success(OfDoc(bsig, d)) /= <<>> => bnote[d] = "none"
          /\ bnote[d] = "output_missing" =>
                /\ Success(OfDoc(bsig, d)) = <<>>
                /\ Last(OfType(OfDoc(bsig, d), {"progress"})).p = Whole(99)
                /\ BatchAttemptOver(d) => Last(OfDoc(bsig, d)).type = "error"

\* a single-document attempt and a batch attempt that ended on an absent
\* output file, after every page and the assembly had been reported
C11_Witness ==
    /\ SingleReturned
    /\ snote = "output_missing"
    /\ stotal = MaxPages
    /\ Last(ssig).type = "error"

C11_WitnessBatch ==
    \E d \in DocIds :
        /\ bnote[d] = "output_missing"
        /\ BatchAttemptOver(d)
        /\ Last(OfDoc(bsig, d)).type = "error"

\* C12: a successful conversion of a document with N >= 1 pages emits exactly
\* the progress values k*95/N after the k-th process_page call (k = 1..N),
\* then 95 at assembly start, 99 at assembly end and 100 after the output
\* check, and completed(doc_id, output_path, N) is its last signal; for N = 4
\* the per-page values are 23.75, 47.5, 71.25 and 95.
ExpectedProgress(N) ==
    [i \in 1..(N + 3) |->
        IF i <= N THEN Frac(i * 95, N)
        ELSE IF i = N + 1 THEN Whole(95)
        ELSE IF i = N + 2 THEN Whole(99)
        ELSE Whole(100)]

ProgressValues(sig) ==
    LET P == OfType(sig, {"progress"}) IN [i \in 1..Len(P) |-> P[i].p]

\* the k-th progress signal of the pages is followed at once by the
\* page_processed signal of the k-th process_page call
PageCallsReported(sig, N) ==
    \A k \in 1..N :
        \E i \in 1..(Len(sig) - 1) :
            /\ sig[i].type = "progress"
            /\ sig[i].p = Frac(k * 95, N)
            /\ sig[i + 1].type = "page_processed"
            /\ sig[i + 1].cur = k

SuccessfulRun(sig, d) ==
    LET N == Last(sig).tot IN
    /\ Last(sig) = EvCompleted(d, OutPath(d), N)
    /\ N >= 1 =>
          /\ ProgressValues(sig) = ExpectedProgress(N)
          /\ PageCallsReported(sig, N)

C12_ProgressValuesOfSuccess ==
    /\ SingleSucceeded => stotal = Last(ssig).tot /\ SuccessfulRun(ssig, sdoc)
    /\ \A d \in DocIds :
          HasEvent(d, {"completed"}) =>
              /\ docs[d].page_count = Last(OfDoc(bsig, d)).tot
              /\ SuccessfulRun(OfDoc(bsig, d), d)
    /\ <<PageProgress(1, 4), PageProgress(2, 4), PageProgress(3, 4), PageProgress(4, 4)>>
          = <<Frac(2375, 100), Frac(475, 10), Frac(7125, 100), Whole(95)>>

\* a single-document conversion of the most pages has succeeded
C12_Witness ==
    /\ SingleSucceeded
    /\ stotal = MaxPages
    /\ Len(OfType(ssig, {"progress"})) = MaxPages + 3

\* C13: when discovery reports 0 pages no progress computation divides by
\* zero: a process_page call made while total_pages is 0 emits progress 0,
\* and a conversion that then succeeds still emits progress 95, 99 and 100
\* and ends with completed reporting page count 0.
NonZero(P) ==
    LET nz == {i \in DOMAIN P : P[i] /= Whole(0)} IN
    [i \in 1..Cardinality(nz) |->
        P[CHOOSE j \in nz : Cardinality({k \in nz : k <= j}) = i]]

\* discovery has reported a total of 0 pages in this attempt
ReportedNoPages(sig) ==
    \E i \in 1..Len(sig) : sig[i] = EvPage(sig[i].doc, 0, 0)

ZeroPageRun(sig, d) ==
    ReportedNoPages(sig) =>
        LET nz == NonZero(ProgressValues(sig)) IN
        /\ Len(nz) <= 3
        /\ nz = SubSeq(<<Whole(95), Whole(99), Whole(100)>>, 1, Len(nz))
        /\ Last(sig).type = "completed" =>
              /\ Len(nz) = 3
              /\ Last(sig) = EvCompleted(d, OutPath(d), 0)

C13_NoPagesNoDivision ==
    /\ ZeroPageRun(ssig, sdoc)
    /\ \A d \in DocIds : ZeroPageRun(OfDoc(bsig, d), d)

\* a conversion has succeeded although process_page was called while
\* total_pages was 0
C13_Witness ==
    /\ SingleSucceeded
    /\ stotal = 0
    /\ sprocessed = MaxPages
    /\ Len(OfType(ssig, {"progress"})) = MaxPages + 3

C13_WitnessBatch ==
    /\ bpc = "done"
    /\ \E d \in DocIds :
          /\ HasEvent(d, {"completed"})
          /\ docs[d].page_count = 0
          /\ Len(OfType(OfDoc(bsig, d), {"progress"})) = MaxPages + 3

\* C14: a conversion attempt is only started (the document marked
\* in_progress and a worker dispatched, or the batch loop entering its body)
\* for a document whose is_scanned flag is true and whose persisted status at
\* that moment is pending or failed; none is started for a document that is
\* in_progress, completed or not_required.
Eligible(d) == docs[d].is_scanned /\ docs[d].status \in {"pending", "failed"}

C14_StartsOnlyEligible ==
    [][/\ \A d \in DocIds : start_conversion(d) => Eligible(d)
       /\ BatchMark => Eligible(Cur)]_vars

\* C15: a document whose is_scanned flag is false has status not_required
\* right after add_document, and no later operation (single-document
\* conversion, batch conversion, or a signal handler) changes its row.
C15_NotRequiredIsFrozen ==
    /\ \A d \in DocIds :
          docs[d] /= NoRow /\ ~ docs[d].is_scanned => docs[d] = NewRow(FALSE)
    /\ \A d \in DocIds :
          docs[d].status = "not_required" =>
              /\ d \notin convert_btn
              /\ ~ HasEvent(d, {"started", "progress", "page_processed", "completed", "error"})
              /\ spc /= "idle" => sdoc /= d

\* a batch run converted a scanned document and the dialog handled all its
\* signals while the store held a document that needs no conversion
C15_Witness ==
    /\ bpc = "done"
    /\ queue = <<>>
    /\ \E d, e \in DocIds :
          /\ d < e
          /\ docs[d].status = "not_required"
          /\ docs[e].status = "completed"
          /\ HasEvent(e, {"completed"})

\* C16: a batch run that is not stopped attempts exactly the documents that
\* were scanned and pending when it listed them at its start (no failed,
\* in_progress, completed or not_required one, and none added later), each
\* once, one at a time, in the order the store returned them.
Listed == {pending_docs[i] : i \in ListIdx}

StartedDocs ==
    LET st == OfType(bsig, {"started"}) IN [i \in 1..Len(st) |-> st[i].doc]

\* the position of a listed document in the list
PosOf(d) == CHOOSE i \in ListIdx : pending_docs[i] = d

C16_WitnessAddedLater ==
    /\ bpc = "done"
    /\ is_running
    /\ Len(pending_docs) = 1
    /\ \E d \in DocIds \ Listed : docs[d] = NewRow(TRUE) /\ d > pending_docs[1]

\* C17: in a batch run, for each document attempted, the store write of
\* status in_progress with progress 0 and the started signal both come before
\* any progress, page_processed or terminal signal of that document, and the
\* store write comes before the started signal.
Marked(d) == docs[d].status = "in_progress" /\ docs[d].progress = Whole(0)

C17_MarkedThenStarted ==
    /\ \A d \in DocIds :
          LET sig == OfDoc(bsig, d) IN
          sig /= <<>> =>
              /\ \A i \in 1..Len(sig) : (sig[i].type = "started") <=> (i = 1)
              /\ docs[d].status \in {"in_progress", "completed", "failed"}
    /\ bpc = "mark" => OfDoc(bsig, Cur) = <<>> /\ docs[Cur].status = "pending"
    /\ bpc \in {"mkdir", "emit_started"} => OfDoc(bsig, Cur) = <<>> /\ Marked(Cur)
    /\ bpc = "convert" => OfDoc(bsig, Cur) = <<EvStarted(Cur)>> /\ Marked(Cur)

\* the second document of a run has been marked and its started signal emitted
C17_Witness ==
    /\ bpc = "convert"
    /\ idx = 2
    /\ Marked(Cur)
    /\ Last(bsig) = EvStarted(Cur)

\* C18: in a batch run, at the moment the completed signal of a document is
\* emitted its row holds status completed, progress 100, the converter's
\* output path and the discovered page count, and the signal carries the same
\* path and page count; likewise the row holds failed with progress 0 at the
\* moment the error signal is emitted.
C18_TerminalRowAtEmission ==
    [][/\ BatchEmitCompleted =>
            /\ docs[Cur].status = "completed"
            /\ docs[Cur].progress = Whole(100)
            /\ docs[Cur].converted_path = OutPath(Cur)
            /\ docs[Cur].page_count = btotal
            /\ Last(bsig') = EvCompleted(Cur, docs[Cur].converted_path, docs[Cur].page_count)
       /\ BatchEmitError =>
            /\ docs[Cur].status = "failed"
            /\ docs[Cur].progress = Whole(0)]_vars

\* C19: in a batch run every progress value emitted for a document per page,
\* at assembly start (95) and at assembly end (99) has been written by the
\* worker to that document's persisted progress before the next signal of the
\* document is emitted, so that the persisted progress equals the last emitted
\* value whenever a further signal of the document is emitted. (A following
\* error signal is left out: the failure path resets the progress to 0.)
LastOf(d) == Last(OfDoc(bsig, d))

C19_ProgressPersistedBeforeNextSignal ==
    [][\A d \in DocIds :
          (/\ Len(bsig') = Len(bsig) + 1
           /\ Last(bsig').doc = d
           /\ Last(bsig').type /= "error"
           /\ OfDoc(bsig, d) /= <<>>
           /\ LastOf(d).type = "progress"
           /\ LastOf(d).p /= Whole(100))
              => docs[d].progress = LastOf(d).p]_vars

\* C20: across the documents of one batch run the store writes are sequential
\* per document: every write concerning the document at position i of the
\* list, the writes of the dialog's slots in reaction to its signals included,
\* is done before the first write concerning the document at position i+1
\* (the write that marks it in_progress).
WritesRow(d) == (Slots /\ Head1.doc = d) \/ docs'[d] /= docs[d]

C20_WritesSequentialPerDocument ==
    [][\A d \in Listed :
          WritesRow(d) =>
              \A j \in ListIdx :
                  j > PosOf(d) => docs[pending_docs[j]].status = "pending"]_vars

\* ------------------------------------------------------------------- C21
SingleLive == spc \notin {"idle", "done"}

\* the batch run has document d in its list at a position it has not finished
BatchWillProcess(d) ==
    /\ BatchLive
    /\ bpc /= "list"
    /\ \E i \in idx..Len(pending_docs) : pending_docs[i] = d

\* the batch run is in the middle of its attempt on document d
BatchProcessing(d) ==
    /\ BatchWillProcess(d)
    /\ bpc /= "loop"
    /\ Cur = d

\* C21: the dialog never has two conversion attempts in flight for the same
\* document: no single-document task for a document is live while a batch run
\* that still has that document to process (or is processing it) is running.
C21_OneAttemptPerDocument ==
    ~(SingleLive /\ BatchWillProcess(sdoc))

\* both workers are in the middle of converting the same document
C21_BothConverting ==
    ~(SingleLive /\ BatchProcessing(sdoc) /\ spc = "pages" /\ bpc = "pages")

\* ------------------------------------------------------------------- C22
\* the step is a call of the named store operation
IsCall(name) == op'.seq /= op.seq /\ op'.name = name

\* C22: update_document_conversion is a partial single-row update: the row of
\* the given id gets the given status, gets each of progress, converted_path
\* and page_count exactly when the argument is supplied (a supplied progress
\* of 0 included), keeps every field whose argument is omitted, and every
\* other row, and the knowledge bases, stay as they were.
C22_PartialSingleRowUpdate ==
    [][IsCall("update_document_conversion") =>
        /\ \A d \in DocIds :
            IF d = op'.doc_id /\ docs[d] /= NoRow
            THEN /\ docs'[d].status = op'.status
                 /\ docs'[d].progress =
                        IF op'.progress = Omitted THEN docs[d].progress
                        ELSE ValueOf(op'.progress)
                 /\ docs'[d].converted_path =
                        IF op'.converted_path = Omitted THEN docs[d].converted_path
                        ELSE ValueOf(op'.converted_path)
                 /\ docs'[d].page_count =
                        IF op'.page_count = Omitted THEN docs[d].page_count
                        ELSE ValueOf(op'.page_count)
                 /\ docs'[d].is_scanned = docs[d].is_scanned
            ELSE docs'[d] = docs[d]
        /\ UNCHANGED <<kbs, kb_id, dirs>>]_vars

\* a row that was written in full and then updated with progress 0 and no
\* path and no page count: the 0 is in the row, path and page count are kept
C22_Witness ==
    /\ op.name = "update_document_conversion"
    /\ op.doc_id \in DocIds
    /\ op.status = "in_progress"
    /\ op.progress = Supplied(Whole(0))
    /\ op.converted_path = Omitted
    /\ op.page_count = Omitted
    /\ docs[op.doc_id].status = "in_progress"
    /\ docs[op.doc_id].progress = Whole(0)
    /\ docs[op.doc_id].converted_path = OutPath(1)
    /\ docs[op.doc_id].page_count = MaxPages

\* ------------------------------------------------------------------- C23
\* the step is a call that names a knowledge base or a document the store
\* does not hold
CallWithUnknownId ==
    \/ IsCall("add_document") /\ get_knowledge_base_by_id(kbs, op'.kb) = NoKb
    \/ IsCall("add_document_to_kb") /\ get_knowledge_base_id(kbs, op'.kb_name) = 0
    \/ /\ IsCall("update_document_conversion")
       /\ (op'.doc_id \notin DocIds \/ docs[op'.doc_id] = NoRow)

\* what the operation returns when it succeeds
SuccessValues(name) ==
    CASE name \in {"add_document", "add_document_to_kb"} ->
            {RetInt(n) : n \in 1..NumDocs}
      [] name = "update_document_conversion" -> {RetNone}
      [] OTHER -> {}

\* C23: an operation that is passed an unknown knowledge-base id or name, or
\* an unknown document id, changes no stored record and returns a value that
\* the operation does not return when it succeeds.
C23_UnknownIdRejected ==
    [][CallWithUnknownId =>
        /\ UNCHANGED <<docs, kb_id, kbs>>
        /\ ret' \notin SuccessValues(op'.name)]_vars

\* ------------------------------------------------------------------- C24
\* no two knowledge-base rows have the same name
UniqueNames ==
    \A j, k \in KbIds : kbs[j] /= NoKb /\ kbs[k] /= NoKb /\ kbs[j].name = kbs[k].name => j = k

\* the step is a call that adds a knowledge base whose name the store holds
CallWithExistingName ==
    /\ IsCall("add_knowledge_base") \/ IsCall("create_kb")
    /\ get_knowledge_base_id(kbs, op'.kb_name) /= 0

\* C24: knowledge-base names are unique in every reachable store, and adding
\* a knowledge base whose name exists returns the failure value (None from
\* add_knowledge_base, False from create_kb), adds no row and leaves the
\* knowledge bases and the documents as they were.
C24_NamesStayUnique ==
    /\ [][CallWithExistingName =>
            /\ ret' = IF op'.name = "create_kb" THEN RetBool(FALSE) ELSE RetNone
            /\ UNCHANGED <<kbs, docs, kb_id>>]_vars
    /\ [](UniqueNames)

\* create_kb was called with the name of a knowledge base that has a document:
\* it returned False and the store holds that one knowledge base and document
C24_Witness ==
    /\ op.name = "create_kb"
    /\ ret = RetBool(FALSE)
    /\ KbCount(kbs) = 1
    /\ kbs[1].name = op.kb_name
    /\ RowCount(docs) = 1
    /\ kb_id[1] = 1

\* add_knowledge_base was called with a name the store holds: None, one row
C24_WitnessNone ==
    /\ op.name = "add_knowledge_base"
    /\ ret = RetNone
    /\ KbCount(kbs) = 1
    /\ kbs[1].name = op.kb_name

\* ------------------------------------------------------------------- C25
\* C25: the output directory the batch task uses for a document is the
\* `converted` subfolder of the directory recorded for the document's
\* knowledge base, the directory start_conversion uses for that document, and
\* the batch task's makedirs step ensures that directory and no other.
C25_BatchUsesKbConvertedDir ==
    [][BatchMkdir =>
        /\ BatchOutputDir(Cur) =
              join(get_knowledge_base_by_id(kbs, kb_id[Cur]).directory, "converted")
        /\ BatchOutputDir(Cur) = SingleOutputDir(Cur)
        /\ dirs' = makedirs(dirs, SingleOutputDir(Cur))]_vars

\* C25, second part: the `converted` directory of a knowledge base exists
\* only once an attempt on one of its documents has begun
C25_CreatedLazily ==
    \A k \in KbIds :
        kbs[k] /= NoKb /\ join(kbs[k].directory, "converted") \in dirs =>
            \E d \in DocIds : kb_id[d] = k /\ docs[d].status \notin {"absent", "pending", "not_required"}

\* ------------------------------------------------------------------- C26
\* The pool thread keeps running the batch worker and the GUI thread keeps
\* handling queued signals: a step of either that can be taken is taken.
SpecFair == Spec /\ WF_vars(BatchStep) /\ WF_vars(Slots)

\* C26, termination: a batch run that was started comes to an end
C26_BatchTerminates == (bpc = "list") ~> BatchOver

\* C26: a batch run ends only in one of two ways: by the loop running off the
\* end of its list, every listed document having had its terminal signal, or
\* at a loop check that sees the stop flag set, the documents before that
\* check having had their terminal signal and the others never started.
C26_EndsInOneOfTwoWays ==
    BatchOver =>
        \/ /\ bpc = "done"
           /\ idx = Len(pending_docs) + 1
           /\ \A i \in ListIdx : Terminals(pending_docs[i]) = 1
        \/ /\ bpc = "stopped"
           /\ ~is_running
           /\ idx \in ListIdx
           /\ \A i \in ListIdx :
                IF i < idx THEN Terminals(pending_docs[i]) = 1
                ELSE ~HasEvent(pending_docs[i], {"started"})

\* ------------------------------------------------------------------- C27
\* C27: a failed document can be retried. The single-document path invoked on
\* a row whose status is failed writes in_progress with progress 0 and
\* dispatches an attempt (which can end either way: see the two witnesses), and
\* the list a batch run takes never contains a document that is failed.
C27_FailedIsRetriedBySinglePathOnly ==
    [][/\ \A d \in DocIds :
            start_conversion(d) /\ docs[d].status = "failed" =>
                /\ docs'[d].status = "in_progress"
                /\ docs'[d].progress = Whole(0)
                /\ spc' = "emit_started"
                /\ sdoc' = d
       /\ BatchList =>
            \A i \in 1..Len(pending_docs') : docs[pending_docs'[i]].status /= "failed"]_vars

\* the retry of a failed document ended in completed, and the row says so
C27_Witness ==
    /\ sfrom = "failed"
    /\ spc = "done"
    /\ Last(ssig).type = "completed"
    /\ queue = <<>>
    /\ docs[sdoc].status = "completed"
    /\ docs[sdoc].progress = Whole(100)

\* the retry of a failed document failed again
C27_WitnessFailedAgain ==
    /\ sfrom = "failed"
    /\ spc = "done"
    /\ Last(ssig).type = "error"
    /\ queue = <<>>
    /\ docs[sdoc].status = "failed"
    /\ docs[sdoc].progress = Whole(0)

\* a batch run took its list while a scanned document was failed, and left it
C27_WitnessBatchLeavesFailed ==
    /\ bpc = "done"
    /\ \E d \in DocIds : docs[d].is_scanned /\ docs[d].status = "failed" /\ d \notin Listed
    /\ \E d \in DocIds : d \in Listed

\* ------------------------------------------------------------------- C28
\* C28: in every reachable state of the store the status and the progress of
\* a document row agree: completed has progress 100 and a converted path,
\* failed has progress 0, pending and not_required have progress 0 and no
\* converted path, and progress is within 0..100, whatever the interleaving of
\* the workers' writes and the slots' writes.
C28_StatusAndProgressAgree ==
    \A d \in DocIds :
        docs[d] /= NoRow =>
            /\ Leq(Whole(0), docs[d].progress) /\ Leq(docs[d].progress, Whole(100))
            /\ docs[d].status = "completed" =>
                  docs[d].progress = Whole(100) /\ docs[d].converted_path /= NoPath
            /\ docs[d].status = "failed" => docs[d].progress = Whole(0)
            /\ docs[d].status \in {"pending", "not_required"} =>
                  docs[d].progress = Whole(0) /\ docs[d].converted_path = NoPath

\* a batch run is over and every signal handled: one document was converted
\* in this run, another failed after its pages had reported progress
C28_Witness ==
    /\ bpc = "done"
    /\ queue = <<>>
    /\ \E d \in Listed : docs[d].status = "completed" /\ HasEvent(d, {"completed"})
    /\ \E d \in Listed :
          /\ docs[d].status = "failed"
          /\ bnote[d] = "output_missing"
          /\ \E i \in 1..Len(bsig) : /\ bsig[i].doc = d
                                     /\ bsig[i].type = "progress"
                                     /\ bsig[i].p = Whole(99)

\* the batch worker has written failed with progress 0 and, after that, the
\* slot of an older progress signal has written in_progress with its value:
\* the row holds that status and that progress, both from the one write
C28_WitnessStaleWrite ==
    /\ bpc = "e_error"
    /\ queue = <<>>
    /\ bnote[Cur] = "output_missing"
    /\ docs[Cur].status = "in_progress"
    /\ docs[Cur].progress = Whole(99)

\* ------------------------------------------------------------------- C29
\* no signal about document d is waiting for its slot
AllHandled(d) == \A i \in 1..Len(queue) : queue[i].doc /= d

\* the row of the event's document is what the terminal event e says
RowMatches(e) ==
    IF e.type = "completed"
    THEN /\ docs[e.doc].status = "completed"
         /\ docs[e.doc].progress = Whole(100)
         /\ docs[e.doc].converted_path = e.path
         /\ docs[e.doc].page_count = e.tot
    ELSE /\ docs[e.doc].status = "failed"
         /\ docs[e.doc].progress = Whole(0)

\* C29: once an attempt has emitted its terminal signal and the slots have
\* handled every signal about the document, in the order of emission, the row
\* is what the terminal signal says: completed, 100, the signal's path and
\* page count, or failed and 0. For the batch task this is so although the
\* slots' in_progress writes land after the worker's own terminal write.
C29_RowMatchesTerminalSignal ==
    /\ \A d \in DocIds :
          Terminals(d) = 1 /\ AllHandled(d) =>
              RowMatches(Last(OfType(OfDoc(bsig, d), Terminal)))
    /\ spc = "done" /\ AllHandled(sdoc) => RowMatches(Last(ssig))

\* a single-document attempt on a two-page file is over and handled
C29_Witness ==
    /\ spc = "done"
    /\ AllHandled(sdoc)
    /\ Last(ssig).type = "completed"
    /\ Last(ssig).tot = MaxPages
    /\ docs[sdoc].page_count = MaxPages

\* a batch run over two documents is over and handled; the first was
\* converted, the second failed
C29_WitnessBatch ==
    /\ bpc = "done"
    /\ queue = <<>>
    /\ Len(pending_docs) = 2
    /\ HasEvent(pending_docs[1], {"completed"})
    /\ HasEvent(pending_docs[2], {"error"})
    /\ docs[pending_docs[1]].status = "completed"
    /\ docs[pending_docs[2]].status = "failed"

\* C29, at the step itself: the slot of a terminal signal leaves the row as
\* the signal says, whatever else is running
C29_TerminalSlotSettlesRow ==
    [][on_conversion_completed \/ on_conversion_error =>
          IF Head1.type = "completed"
          THEN /\ docs'[Head1.doc].status = "completed"
               /\ docs'[Head1.doc].progress = Whole(100)
               /\ docs'[Head1.doc].converted_path = Head1.path
               /\ docs'[Head1.doc].page_count = Head1.tot
          ELSE /\ docs'[Head1.doc].status = "failed"
               /\ docs'[Head1.doc].progress = Whole(0)]_vars

\* ------------------------------------------------------------------- C30
\* every thread has returned from process_page
ThreadsDone ==
    /\ spc = "threads"
    /\ \A t \in Threads : tpc[t] \in {"done", "none"}

\* the `current` values of the page_processed signals of the process_page calls
PageCurrents ==
    LET pg == SelectSeq(ssig, LAMBDA e : e.type = "page_processed" /\ e.cur > 0)
    IN  [i \in 1..Len(pg) |-> pg[i].cur]

\* C30: when the converter calls process_page for the N pages of a document
\* from interleaved threads, no increment of the page counter is lost: the
\* `current` values of the N page_processed signals are pairwise distinct and
\* cover 1..N, and the highest per-page progress emitted is exactly 95.
C30_NoIncrementLost ==
    ThreadsDone =>
        /\ sprocessed = stotal
        /\ Len(PageCurrents) = stotal
        /\ {PageCurrents[i] : i \in 1..Len(PageCurrents)} = 1..stotal
        /\ \E i \in 1..Len(ssig) : ssig[i].type = "progress" /\ ssig[i].p = Whole(95)
        /\ \A i \in 1..Len(ssig) : ssig[i].type = "progress" => Leq(ssig[i].p, Whole(95))

\* C30, the counter alone: no increment is lost
C30_CounterReachesTotal == ThreadsDone => sprocessed = stotal

\* C30, the signals alone, in runs in which the counter reaches the total
C30_CurrentsCoverPages ==
    ThreadsDone /\ sprocessed = stotal =>
        {PageCurrents[i] : i \in 1..Len(PageCurrents)} = 1..stotal

====
